---- MODULE Spec2Model ----
(***************************************************************************)
(* PurdueLinkHub: the weekly schedule engine of src/js/schedule.js and the *)
(* section selection of the course search page that drives it; and the     *)
(* usage log of the tracking server, src/server/server.js.                 *)
(*                                                                         *)
(* JavaScript strings are modelled as sequences of one-character strings,  *)
(* so that includes(), split(), trim() and the two regular expressions of  *)
(* the time parser are computed on the characters, as the code does.  A    *)
(* missing (undefined) string field and the empty string are both the      *)
(* empty sequence: the code reads these fields only through `!x`,          *)
(* `x || ''` and `if (x)`, which do not tell the two apart.                *)
(***************************************************************************)
EXTENDS Integers, Sequences, FiniteSets, TLC

VARIABLES
    selectedSections,  \* courseState.selectedSections
    storage,           \* localStorage['purdueSchedule'] (the saved section list)
    renderedSections,  \* scheduleState.renderedSections
    renderedAliased,   \* renderedSections is the very array object selectedSections is
    colorMap,          \* scheduleState.colorMap, in insertion order
    conflicts,         \* scheduleState.conflicts
    display,           \* scheduleSection.style.display
    blocks,            \* the meeting-block children of the grid in #scheduleGrid
    warning,           \* the #conflictWarning banner
    creditCounter,     \* the number shown in #creditCounter
    probe,             \* the call under test of a pure-function specification
    usageLog,          \* server/data/usage-log.json
    stats,             \* server/data/stats.json: the own properties of the object
    response           \* the answer to the last request to the server

vars == <<selectedSections, storage, renderedSections, renderedAliased, colorMap,
          conflicts, display, blocks, warning, creditCounter, probe,
          usageLog, stats, response>>

serverVars == <<usageLog, stats, response>>

engineVars == <<selectedSections, storage, renderedSections, renderedAliased, colorMap,
                conflicts, display, blocks, warning, creditCounter>>

-----------------------------------------------------------------------------
(* Strings *)

Str0 == <<>>

DigitChars == <<"0", "1", "2", "3", "4", "5", "6", "7", "8", "9">>

IsDigit(c) == \E i \in 1..Len(DigitChars) : DigitChars[i] = c

DigitVal(c) == (CHOOSE i \in 1..Len(DigitChars) : DigitChars[i] = c) - 1

SeqRange(s) == {s[i] : i \in 1..Len(s)}

\* parseInt on a string of decimal digits (the regular expressions hand it \d+).
RECURSIVE ParseIntFrom(_, _, _)
ParseIntFrom(s, i, acc) ==
    IF i > Len(s) THEN acc ELSE ParseIntFrom(s, i + 1, acc * 10 + DigitVal(s[i]))

ParseInt(s) == ParseIntFrom(s, 1, 0)

\* The length of the longest run of digits of s that starts at position i: \d+ is greedy.
RECURSIVE DigitRun(_, _)
DigitRun(s, i) ==
    IF i <= Len(s) /\ IsDigit(s[i]) THEN 1 + DigitRun(s, i + 1) ELSE 0

CharAt(s, i) == IF i >= 1 /\ i <= Len(s) THEN s[i] ELSE ""

\* String.prototype.includes
Includes(s, sub) ==
    \E i \in 1..(Len(s) - Len(sub) + 1) : SubSeq(s, i, i + Len(sub) - 1) = sub

\* String.prototype.split(',')
RECURSIVE SplitFrom(_, _, _)
SplitFrom(s, i, cur) ==
    IF i > Len(s) THEN <<cur>>
    ELSE IF s[i] = "," THEN <<cur>> \o SplitFrom(s, i + 1, <<>>)
    ELSE SplitFrom(s, i + 1, Append(cur, s[i]))

SplitComma(s) == SplitFrom(s, 1, <<>>)

\* String.prototype.trim (the only white space of the inputs is the blank)
RECURSIVE TrimLeft(_)
TrimLeft(s) == IF Len(s) > 0 /\ s[1] = " " THEN TrimLeft(Tail(s)) ELSE s

RECURSIVE TrimRight(_)
TrimRight(s) ==
    IF Len(s) > 0 /\ s[Len(s)] = " " THEN TrimRight(SubSeq(s, 1, Len(s) - 1)) ELSE s

Trim(s) == TrimRight(TrimLeft(s))

-----------------------------------------------------------------------------
(* Configuration: SCHEDULE_CONFIG *)

startHour == 7

endHour == 22

totalSlots == (endHour - startHour) * 2

Monday == <<"M", "o", "n", "d", "a", "y">>
Tuesday == <<"T", "u", "e", "s", "d", "a", "y">>
Wednesday == <<"W", "e", "d", "n", "e", "s", "d", "a", "y">>
Thursday == <<"T", "h", "u", "r", "s", "d", "a", "y">>
Friday == <<"F", "r", "i", "d", "a", "y">>
Saturday == <<"S", "a", "t", "u", "r", "d", "a", "y">>
Sunday == <<"S", "u", "n", "d", "a", "y">>

\* faulty variant: Thursday abbreviated "T" like Tuesday
dayAbbreviationsThursdayT ==
    << <<Monday, <<"M">> >>, <<Tuesday, <<"T">> >>, <<Wednesday, <<"W">> >>,
       <<Thursday, <<"T">> >>, <<Friday, <<"F">> >>, <<Saturday, <<"S">> >>,
       <<Sunday, <<"U">> >> >>

\* Object.entries(SCHEDULE_CONFIG.dayAbbreviations), in property order
dayAbbreviations ==
    << <<Monday, <<"M">> >>, <<Tuesday, <<"T">> >>, <<Wednesday, <<"W">> >>,
       <<Thursday, <<"R">> >>, <<Friday, <<"F">> >>, <<Saturday, <<"S">> >>,
       <<Sunday, <<"U">> >> >>

colors == <<"#CFB991", "#6B9BD1", "#81C784", "#FFB74D", "#BA68C8",
            "#F06292", "#4DB6AC", "#FF8A65", "#9575CD", "#FFD54F">>

defaultColor == "#999"

-----------------------------------------------------------------------------
(* parseDaysOfWeek *)

dayMapKeys == <<Monday, Tuesday, Wednesday, Thursday, Friday, Saturday, Sunday>>

\* dayMap.hasOwnProperty(day)
dayMapHas(day) == \E i \in 1..Len(dayMapKeys) : dayMapKeys[i] = day

\* dayMap[day]
dayMap(day) == (CHOOSE i \in 1..Len(dayMapKeys) : dayMapKeys[i] = day) - 1

\* the comma branch: every trimmed piece that is a key of dayMap is pushed, in order
RECURSIVE daysFromNames(_)
daysFromNames(pieces) ==
    IF pieces = <<>> THEN <<>>
    ELSE (IF dayMapHas(Trim(pieces[1])) THEN <<dayMap(Trim(pieces[1]))>> ELSE <<>>)
         \o daysFromNames(Tail(pieces))

\* the abbreviation branch: for each entry of dayAbbreviations, in order, whose
\* code occurs in the string, its index is pushed unless already there
RECURSIVE daysFromCodes(_, _, _)
daysFromCodes(daysString, k, dayIndices) ==
    IF k > Len(dayAbbreviations) THEN dayIndices
    ELSE LET fullDay == dayAbbreviations[k][1]
             abbr == dayAbbreviations[k][2]
             index == dayMap(fullDay)
         IN daysFromCodes(daysString, k + 1,
                IF Includes(daysString, abbr) /\ index \notin SeqRange(dayIndices)
                THEN Append(dayIndices, index) ELSE dayIndices)

\* faulty variant: lets Saturday through
weekdayOnlyLoose(i) == i < 6

\* dayIndices.filter(i => i < 5)
weekdayOnly(i) == i < 5

parseDaysOfWeek(daysString) ==
    LET dayIndices == IF Includes(daysString, <<",">>)
                      THEN daysFromNames(SplitComma(daysString))
                      ELSE daysFromCodes(daysString, 1, <<>>)
    IN SelectSeq(dayIndices, weekdayOnly)

-----------------------------------------------------------------------------
(* parseTimeInfo *)

NoMatch == [matched |-> FALSE]

\* startTime.match(/^(\d+):(\d+):(\d+)/)
timeMatch(startTime) ==
    LET n1 == DigitRun(startTime, 1)
        n2 == DigitRun(startTime, n1 + 2)
        n3 == DigitRun(startTime, n1 + n2 + 3)
    IN IF /\ n1 > 0
          /\ CharAt(startTime, n1 + 1) = ":"
          /\ n2 > 0
          /\ CharAt(startTime, n1 + n2 + 2) = ":"
          /\ n3 > 0
       THEN [matched |-> TRUE,
             g1 |-> SubSeq(startTime, 1, n1),
             g2 |-> SubSeq(startTime, n1 + 2, n1 + n2 + 1)]
       ELSE NoMatch

\* The first position at which "PT" occurs, 0 if none: the rest of the pattern
\* is optional, so the leftmost "PT" is where the match is found.
RECURSIVE findPT(_, _)
findPT(duration, i) ==
    IF i + 1 > Len(duration) THEN 0
    ELSE IF duration[i] = "P" /\ duration[i + 1] = "T" THEN i
    ELSE findPT(duration, i + 1)

\* duration.match(/PT(?:(\d+)H)?(?:(\d+)M)?/): g1, g2 are the groups, Str0 if undefined
durationMatch(duration) ==
    LET p == findPT(duration, 1)
        j == p + 2
        nh == DigitRun(duration, j)
        hasH == nh > 0 /\ CharAt(duration, j + nh) = "H"
        k == IF hasH THEN j + nh + 1 ELSE j
        nm == DigitRun(duration, k)
        hasM == nm > 0 /\ CharAt(duration, k + nm) = "M"
    IN IF p = 0 THEN NoMatch
       ELSE [matched |-> TRUE,
             g1 |-> IF hasH THEN SubSeq(duration, j, j + nh - 1) ELSE Str0,
             g2 |-> IF hasM THEN SubSeq(duration, k, k + nm - 1) ELSE Str0]

defaultDuration == 50

\* the minutes the "Parse duration" part of parseTimeInfo arrives at
durationMinutesOf(duration) ==
    IF duration # Str0 /\ durationMatch(duration).matched
    THEN LET match == durationMatch(duration)
             hours == IF match.g1 # Str0 THEN ParseInt(match.g1) ELSE 0
             minutes == IF match.g2 # Str0 THEN ParseInt(match.g2) ELSE 0
         IN hours * 60 + minutes
    ELSE defaultDuration

\* faulty variant: rounds down
slotsOfFloor(durationMinutes) == durationMinutes \div 30

\* Math.ceil(durationMinutes / 30)
slotsOf(durationMinutes) == (durationMinutes + 29) \div 30

\* (startHour - SCHEDULE_CONFIG.startHour) * 2 + (startMin >= 30 ? 1 : 0)
\* faulty variant: minute 30 still counts as the first half of the hour
slotOfAfterHalf(hour, min) == (hour - startHour) * 2 + (IF min > 30 THEN 1 ELSE 0)

slotOf(hour, min) == (hour - startHour) * 2 + (IF min >= 30 THEN 1 ELSE 0)

Null == [isNull |-> TRUE]

parseTimeInfo(startTimeStr, duration) ==
    IF startTimeStr = Str0 THEN Null
    ELSE IF ~timeMatch(startTimeStr).matched THEN Null
    ELSE LET m == timeMatch(startTimeStr)
         IN [isNull |-> FALSE,
             startSlot |-> slotOf(ParseInt(m.g1), ParseInt(m.g2)),
             numSlots |-> slotsOf(durationMinutesOf(duration))]

-----------------------------------------------------------------------------
(* parseTimeInfo of src/js/search.js, the older copy of the engine: the start   *)
(* time goes through new Date(startTime) and the UTC hour and minute are read.  *)
(* An Invalid Date reads as NaN, and the function returns an object whatever it *)
(* read: a result whose startSlot is NaN is [isNaN |-> TRUE] with no startSlot.  *)

\* the date-time format "YYYY-MM-DDTHH:MM:SSZ" that Date parsing accepts
isoDateMatch(s) ==
    /\ Len(s) = 20
    /\ \A i \in {1, 2, 3, 4, 6, 7, 9, 10, 12, 13, 15, 16, 18, 19} : IsDigit(s[i])
    /\ s[5] = "-" /\ s[8] = "-" /\ s[11] = "T" /\ s[14] = ":" /\ s[17] = ":" /\ s[20] = "Z"
    /\ ParseInt(SubSeq(s, 6, 7)) \in 1..12
    /\ ParseInt(SubSeq(s, 9, 10)) \in 1..31
    /\ ParseInt(SubSeq(s, 12, 13)) \in 0..23
    /\ ParseInt(SubSeq(s, 15, 16)) \in 0..59
    /\ ParseInt(SubSeq(s, 18, 19)) \in 0..59

\* new Date(startTime): the UTC hour and minute, or an Invalid Date for undefined
\* and for a string that is no date
dateOf(startTime) ==
    IF startTime # Str0 /\ isoDateMatch(startTime)
    THEN [valid |-> TRUE, utcHours |-> ParseInt(SubSeq(startTime, 12, 13)),
          utcMinutes |-> ParseInt(SubSeq(startTime, 15, 16))]
    ELSE [valid |-> FALSE]

parseTimeInfoLegacy(startTime, duration) ==
    LET start == dateOf(startTime)
    IN IF start.valid
       THEN [isNull |-> FALSE, isNaN |-> FALSE,
             startSlot |-> slotOf(start.utcHours, start.utcMinutes),
             numSlots |-> slotsOf(durationMinutesOf(duration))]
       ELSE [isNull |-> FALSE, isNaN |-> TRUE,
             numSlots |-> slotsOf(durationMinutesOf(duration))]

-----------------------------------------------------------------------------
(* Data: a meeting is [DaysOfWeek, StartTime, Duration], a section is           *)
(* [Id, Meetings, course], course being the _course the selection attaches:     *)
(* [Id, Subject, Number, CreditHours].  A section without a Meetings array is   *)
(* the section with no meetings: sectionsConflict and renderSection return at   *)
(* once for both.                                                               *)

Meeting(days, start, duration) ==
    [DaysOfWeek |-> days, StartTime |-> start, Duration |-> duration]

Course(id, subject, number, credits) ==
    [Id |-> id, Subject |-> subject, Number |-> number, CreditHours |-> credits]

Section(id, course, meetings) == [Id |-> id, course |-> course, Meetings |-> meetings]

-----------------------------------------------------------------------------
(* Input strings: how the upstream data writes days, clock times and durations *)

Dec(n) == IF n < 10 THEN <<DigitChars[n + 1]>>
          ELSE <<DigitChars[(n \div 10) + 1], DigitChars[(n % 10) + 1]>>

TwoDigits(n) == <<DigitChars[(n \div 10) + 1], DigitChars[(n % 10) + 1]>>

\* "HH:MM:00"
Clock(h, m) == TwoDigits(h) \o <<":">> \o TwoDigits(m) \o <<":", "0", "0">>

\* "PT<h>H<m>M", a zero part left out, "PT0M" for nothing at all
Iso(h, m) ==
    <<"P", "T">> \o (IF h > 0 THEN Dec(h) \o <<"H">> ELSE <<>>)
                 \o (IF m > 0 \/ h = 0 THEN Dec(m) \o <<"M">> ELSE <<>>)

MWF == <<"M", "W", "F">>
TR == <<"T", "R">>
CommaBlank == <<",", " ">>

-----------------------------------------------------------------------------
(* The course search page: the sections a user can toggle *)

CS180 == Course("CS180", "CS", "18000", 4)
MA261 == Course("MA261", "MA", "26100", 4)
PHYS172 == Course("PHYS172", "PHYS", "17200", 4)
ENGL106 == Course("ENGL106", "ENGL", "10600", 3)

Catalog ==
    { Section(1, CS180, << Meeting(MWF, Clock(9, 0), Iso(0, 50)) >>),
      Section(2, MA261, << Meeting(MWF, Clock(9, 20), Iso(0, 50)) >>),
      Section(3, PHYS172, << Meeting(Tuesday \o CommaBlank \o Thursday, Clock(10, 0), Iso(1, 15)),
                             Meeting(<<"F">>, Clock(9, 30), Iso(1, 50)) >>),
      Section(4, CS180, << Meeting(TR, Clock(10, 30), Iso(0, 50)),
                           Meeting(<<"F">>, Clock(10, 0), Iso(0, 50)) >>),
      Section(5, ENGL106, << Meeting(<<"S", "U">>, Clock(9, 0), Iso(0, 50)),
                             Meeting(<<"M">>, Clock(6, 30), Str0) >>) }

-----------------------------------------------------------------------------
(* Every meeting of the model, and the two parsers tabulated over the strings    *)
(* these meetings carry.  The engine parses the same few strings again in every *)
(* pass; the tables hold what parseDaysOfWeek and parseTimeInfo return for them. *)

CatalogMeetings == UNION { SeqRange(section.Meetings) : section \in Catalog }

\* the meetings of the saved schedules a page is opened with
PairDays == { MWF, TR, Monday \o CommaBlank \o Wednesday \o CommaBlank \o Friday, <<"F">>,
             <<"S", "U">>, Saturday \o CommaBlank \o Sunday, Saturday }

PairStarts == { Clock(9, 0), Clock(9, 20), Clock(9, 50), Clock(10, 0), Clock(6, 30),
               Clock(21, 30), Clock(22, 0), Str0 }

PairDurations == { Iso(0, 50), Iso(1, 20), Iso(0, 0), Str0 }

PairMeetings ==
    { Meeting(d, t, u) : d \in PairDays, t \in PairStarts, u \in PairDurations }

\* the meetings meetingsOverlap is called on alone
OverlapDays == { MWF, TR, <<"F">> }

OverlapStarts == { Clock(9, 0), Clock(9, 20), Clock(12, 0), Clock(13, 0), Clock(14, 0) }

OverlapDurations == { Iso(2, 0), Iso(0, 50), Iso(0, 0) }

OverlapMeetings ==
    { Meeting(d, t, u) : d \in OverlapDays, t \in OverlapStarts, u \in OverlapDurations }

\* meetings with a day string that names no weekday or a start time that is not a
\* clock time, and one well-formed meeting beside them
MalformedDays == { Str0, <<"T", "B", "A">>, <<"m", "w", "f">>, <<"S", "U">>, MWF }

MalformedStarts == { Str0, <<"T", "B", "A">>, <<"9", "a", "m">>, Clock(9, 0) }

MalformedMeetings ==
    { Meeting(d, t, u) : d \in MalformedDays, t \in MalformedStarts, u \in {Iso(0, 50), Str0} }
        \ { Meeting(MWF, Clock(9, 0), u) : u \in {Iso(0, 50), Str0} }

\* durations that are given but match no PT..H..M pattern
UnparsableDurations == { <<"5", "0", " ", "m", "i", "n">>, <<"1", "h">>, <<"P", "5", "0", "M">> }

BadDurationMeetings ==
    { Meeting(d, Clock(9, 0), u) : d \in {MWF, TR}, u \in UnparsableDurations }

AllMeetings ==
    CatalogMeetings \cup PairMeetings \cup OverlapMeetings \cup MalformedMeetings
        \cup BadDurationMeetings

daysTable == [d \in {m.DaysOfWeek : m \in AllMeetings} |-> parseDaysOfWeek(d)]

timeTable == [t \in {<<m.StartTime, m.Duration>> : m \in AllMeetings} |->
                 parseTimeInfo(t[1], t[2])]

\* parseDaysOfWeek(meeting.DaysOfWeek || '')
meetingDays(meeting) == daysTable[meeting.DaysOfWeek]

\* parseTimeInfo(meeting.StartTime, meeting.Duration)
meetingTime(meeting) == timeTable[<<meeting.StartTime, meeting.Duration>>]

-----------------------------------------------------------------------------
(* Conflict detection *)

\* faulty variant: the closed test, which takes back-to-back meetings for a clash
slotRangesOverlapClosed(start1, end1, start2, end2) == start1 <= end2 /\ start2 <= end1

\* time1.startSlot < end2 && time2.startSlot < end1
slotRangesOverlap(start1, end1, start2, end2) == start1 < end2 /\ start2 < end1

\* faulty variant: the days of the second meeting are not looked at
commonDaysOfAny(days1, days2) == days1

\* days1.filter(day => days2.includes(day))
commonDaysOf(days1, days2) == SelectSeq(days1, LAMBDA day : day \in SeqRange(days2))

meetingsOverlap(meeting1, meeting2) ==
    LET days1 == meetingDays(meeting1)
        days2 == meetingDays(meeting2)
        commonDays == commonDaysOf(days1, days2)
        time1 == meetingTime(meeting1)
        time2 == meetingTime(meeting2)
    IN IF Len(commonDays) = 0 THEN FALSE
       ELSE IF time1.isNull \/ time2.isNull THEN FALSE
       ELSE slotRangesOverlap(time1.startSlot, time1.startSlot + time1.numSlots,
                              time2.startSlot, time2.startSlot + time2.numSlots)

\* faulty variant: only the first meeting of each section is compared
sectionsConflictFirstOnly(section1, section2) ==
    /\ Len(section1.Meetings) > 0
    /\ Len(section2.Meetings) > 0
    /\ meetingsOverlap(section1.Meetings[1], section2.Meetings[1])

\* the two nested loops return true at the first overlapping meeting pair
sectionsConflict(section1, section2) ==
    \E a \in 1..Len(section1.Meetings) : \E b \in 1..Len(section2.Meetings) :
        meetingsOverlap(section1.Meetings[a], section2.Meetings[b])

\* `${Subject.Abbreviation} ${Number}`
courseLabel(section) == <<section.course.Subject, section.course.Number>>

\* faulty variant: the two ids (and labels) are listed later section first
conflictOfSwapped(sections, i, j) ==
    [sections |-> <<sections[j].Id, sections[i].Id>>,
     courses |-> <<courseLabel(sections[j]), courseLabel(sections[i])>>]

conflictOf(sections, i, j) ==
    [sections |-> <<sections[i].Id, sections[j].Id>>,
     courses |-> <<courseLabel(sections[i]), courseLabel(sections[j])>>]

\* the (i, j) double loop, from position (i, j) on
RECURSIVE conflictsFrom(_, _, _)
conflictsFrom(sections, i, j) ==
    IF i > Len(sections) THEN <<>>
    ELSE IF j > Len(sections) THEN conflictsFrom(sections, i + 1, i + 2)
    ELSE (IF sectionsConflict(sections[i], sections[j])
          THEN <<conflictOf(sections, i, j)>> ELSE <<>>)
         \o conflictsFrom(sections, i, j + 1)

\* faulty variant: the first pair is pushed in both orders
detectAllConflictsBothOrders(sections) ==
    conflictsFrom(sections, 1, 2)
    \o (IF Len(sections) >= 2 /\ sectionsConflict(sections[1], sections[2])
        THEN <<conflictOf(sections, 2, 1)>> ELSE <<>>)

detectAllConflicts(sections) == conflictsFrom(sections, 1, 2)

NoWarning == <<>>

\* showConflictWarning lists the course labels of every pair; hideConflictWarning
\* removes the banner
warningFor(found) ==
    IF Len(found) > 0 THEN [k \in 1..Len(found) |-> found[k].courses] ELSE NoWarning

-----------------------------------------------------------------------------
(* Color assignment: the Map is a sequence of [courseId, color] in insertion order. *)
(* A section without a course id has course.Id = NoCourseId, which             *)
(* `if (courseId)` skips.                                                        *)

NoCourseId == ""

\* faulty variant: the map is never found to hold a course
mapHasNever(map, courseId) == FALSE

mapHas(map, courseId) == \E k \in 1..Len(map) : map[k].courseId = courseId

mapGet(map, courseId) == map[CHOOSE k \in 1..Len(map) : map[k].courseId = courseId].color

\* faulty variant: only the course of the first section is collected
uniqueCoursesFirstOnly(sections, seen) ==
    IF sections = <<>> \/ sections[1].course.Id = NoCourseId THEN seen
    ELSE <<sections[1].course.Id>>

\* the Set uniqueCourses, in insertion order
RECURSIVE uniqueCoursesOf(_, _)
uniqueCoursesOf(sections, seen) ==
    IF sections = <<>> THEN seen
    ELSE LET courseId == sections[1].course.Id
         IN uniqueCoursesOf(Tail(sections),
                IF courseId # NoCourseId /\ courseId \notin SeqRange(seen)
                THEN Append(seen, courseId) ELSE seen)

RECURSIVE assignFrom(_, _, _)
assignFrom(unique, map, colorIndex) ==
    IF unique = <<>> THEN map
    ELSE IF mapHas(map, unique[1]) THEN assignFrom(Tail(unique), map, colorIndex)
    ELSE assignFrom(Tail(unique),
                    Append(map, [courseId |-> unique[1],
                                 color |-> colors[(colorIndex % Len(colors)) + 1]]),
                    colorIndex + 1)

\* faulty variant: every pass builds the map anew from the sections it is given
assignCourseColorsFresh(sections, map) ==
    assignFrom(uniqueCoursesOf(sections, <<>>), <<>>, 0)

assignCourseColors(sections, map) == assignFrom(uniqueCoursesOf(sections, <<>>), map, 0)

-----------------------------------------------------------------------------
(* Layout: a placed block is the meeting-block element appended to the grid. *)

\* faulty variant: the upper end of the window is not checked
outOfBoundsLowOnly(startSlot) == startSlot < 0

\* startSlot < 0 || startSlot >= (endHour - startHour) * 2
outOfBounds(startSlot) == startSlot < 0 \/ startSlot >= (endHour - startHour) * 2

\* scheduleState.conflicts.some(conflict => conflict.sections.includes(section.Id))
hasConflict(found, section) ==
    \E k \in 1..Len(found) : section.Id \in SeqRange(found[k].sections)

\* createMeetingBlock: <<block>>, or <<>> where the code returns null
createMeetingBlock(meeting, section, color, dayIndex, found) ==
    LET timeInfo == meetingTime(meeting)
    IN IF timeInfo.isNull THEN <<>>
       ELSE IF outOfBounds(timeInfo.startSlot) THEN <<>>
       ELSE << [gridColumn |-> dayIndex + 2,
                gridRow |-> timeInfo.startSlot + 2,
                span |-> timeInfo.numSlots,
                backgroundColor |-> color,
                conflict |-> hasConflict(found, section),
                sectionId |-> section.Id] >>

\* faulty variant: a block for the first day of the meeting only
blocksOfDaysFirstOnly(days, meeting, section, color, found) ==
    IF days = <<>> THEN <<>>
    ELSE createMeetingBlock(meeting, section, color, days[1], found)

RECURSIVE blocksOfDays(_, _, _, _, _)
blocksOfDays(days, meeting, section, color, found) ==
    IF days = <<>> THEN <<>>
    ELSE createMeetingBlock(meeting, section, color, days[1], found)
         \o blocksOfDays(Tail(days), meeting, section, color, found)

renderMeeting(meeting, section, color, found) ==
    IF meeting.DaysOfWeek = Str0 \/ meeting.StartTime = Str0 THEN <<>>
    ELSE blocksOfDays(meetingDays(meeting), meeting, section, color, found)

RECURSIVE blocksOfMeetings(_, _, _, _)
blocksOfMeetings(meetings, section, color, found) ==
    IF meetings = <<>> THEN <<>>
    ELSE renderMeeting(meetings[1], section, color, found)
         \o blocksOfMeetings(Tail(meetings), section, color, found)

\* scheduleState.colorMap.get(courseId) || '#999'
colorOf(map, courseId) == IF mapHas(map, courseId) THEN mapGet(map, courseId) ELSE defaultColor

renderSection(section, map, found) ==
    blocksOfMeetings(section.Meetings, section, colorOf(map, section.course.Id), found)

RECURSIVE renderSections(_, _, _)
renderSections(sections, map, found) ==
    IF sections = <<>> THEN <<>>
    ELSE renderSection(sections[1], map, found) \o renderSections(Tail(sections), map, found)

\* updateCreditCounter: the credit hours of the first section of each course, summed
RECURSIVE totalCreditsOf(_, _)
totalCreditsOf(sections, seen) ==
    IF sections = <<>> THEN 0
    ELSE LET c == sections[1].course
         IN IF c.Id # NoCourseId /\ c.Id \notin seen
            THEN c.CreditHours + totalCreditsOf(Tail(sections), seen \cup {c.Id})
            ELSE totalCreditsOf(Tail(sections), seen)

\* faulty variant: the blocks are flagged from the conflicts of the pass before
renderScheduleGridStaleFlags(sections, aliased, stored, storedAliased) ==
    IF Len(sections) = 0
    THEN /\ display' = "none"
         /\ renderedSections' = stored
         /\ renderedAliased' = storedAliased
         /\ UNCHANGED <<colorMap, conflicts, blocks, warning, creditCounter>>
    ELSE LET map == assignCourseColors(sections, colorMap)
             found == detectAllConflicts(sections)
         IN /\ display' = "block"
            /\ renderedSections' = sections
            /\ renderedAliased' = aliased
            /\ colorMap' = map
            /\ conflicts' = found
            /\ warning' = warningFor(found)
            /\ blocks' = renderSections(sections, map, conflicts)
            /\ creditCounter' = totalCreditsOf(sections, {})

\* renderScheduleGrid(sections), sections being the array courseState.selectedSections
\* is (aliased) or a fresh array (not aliased); stored is what
\* scheduleState.renderedSections reads as when the call is made.
renderScheduleGrid(sections, aliased, stored, storedAliased) ==
    IF Len(sections) = 0
    THEN /\ display' = "none"
         /\ renderedSections' = stored
         /\ renderedAliased' = storedAliased
         /\ UNCHANGED <<colorMap, conflicts, blocks, warning, creditCounter>>
    ELSE LET map == assignCourseColors(sections, colorMap)
             found == detectAllConflicts(sections)
         IN /\ display' = "block"
            /\ renderedSections' = sections
            /\ renderedAliased' = aliased
            /\ colorMap' = map
            /\ conflicts' = found
            /\ warning' = warningFor(found)
            /\ blocks' = renderSections(sections, map, found)
            /\ creditCounter' = totalCreditsOf(sections, {})

\* exportScheduleAsImage, html2canvas being loaded: the alert of an empty schedule, or
\* the image of the grid
exportScheduleAsImage ==
    IF Len(renderedSections) = 0 THEN "No schedule to export! Please add courses first."
    ELSE "exported"

NoStorage == [saved |-> FALSE]

Idle == [op |-> "idle"]

\* no request has been answered
NoResponse == [status |-> "none"]

\* the two data files as the server creates them: [] and {}
ServerInit ==
    /\ usageLog = <<>>
    /\ stats = <<>>
    /\ response = NoResponse

EngineInit ==
    /\ selectedSections = <<>>
    /\ storage = NoStorage
    /\ renderedSections = <<>>
    /\ renderedAliased = FALSE
    /\ colorMap = <<>>
    /\ conflicts = <<>>
    /\ display = "none"
    /\ blocks = <<>>
    /\ warning = NoWarning
    /\ creditCounter = 0

Init == EngineInit /\ ServerInit /\ probe = Idle

\* faulty variant: only the first selected section is compared
findIndexOfFirstOnly(sections, id) ==
    IF sections # <<>> /\ sections[1].Id = id THEN 1 ELSE 0

\* selectedSections.findIndex(s => s.Id === section.Id), 0 for -1
findIndexOf(sections, id) ==
    IF \E k \in 1..Len(sections) : sections[k].Id = id
    THEN CHOOSE k \in 1..Len(sections) :
             sections[k].Id = id /\ \A l \in 1..(k - 1) : sections[l].Id # id
    ELSE 0

\* splice(index, 1)
spliceOut(sections, index) ==
    SubSeq(sections, 1, index - 1) \o SubSeq(sections, index + 1, Len(sections))

toggled(sections, section) ==
    LET existingIndex == findIndexOf(sections, section.Id)
    IN IF existingIndex > 0 THEN spliceOut(sections, existingIndex)
       ELSE Append(sections, section)

\* saveSchedule
saved(sections) == [saved |-> TRUE, sections |-> sections]

\* toggleSectionSelection: splice or push, saveSchedule, updateScheduleDisplay
toggleSectionSelection(section) ==
    LET now == toggled(selectedSections, section)
    IN /\ selectedSections' = now
       /\ storage' = saved(now)
       /\ renderScheduleGrid(now, TRUE,
                             IF renderedAliased THEN now ELSE renderedSections,
                             renderedAliased)

\* a click on the button of a section card
ToggleSectionSelection(section) ==
    /\ toggleSectionSelection(section)
    /\ UNCHANGED <<probe, serverVars>>

\* clearSchedule, from the Clear button that a rendered schedule shows
ClearSchedule ==
    /\ display = "block"
    /\ selectedSections' = <<>>
    /\ storage' = NoStorage
    /\ renderScheduleGrid(<<>>, FALSE, renderedSections, FALSE)
    /\ UNCHANGED <<probe, serverVars>>

Next ==
    \/ \E section \in Catalog : ToggleSectionSelection(section)
    \/ ClearSchedule

Spec == Init /\ [][Next]_vars

-----------------------------------------------------------------------------
(* The clicks on section cards counted: a session of toggleSectionSelection     *)
(* calls from an empty selection, no clear, each section clicked at most        *)
(* MaxToggles times.                                                            *)

MaxToggles == 3

\* the section cards that are clicked
ToggleCatalog == { section \in Catalog : section.Id \in {1, 2, 3} }

InitToggle ==
    /\ EngineInit
    /\ ServerInit
    /\ probe = [op |-> "toggles", count |-> [section \in ToggleCatalog |-> 0]]

CountedToggle(section) ==
    /\ probe.op = "toggles"
    /\ probe.count[section] < MaxToggles
    /\ toggleSectionSelection(section)
    /\ probe' = [probe EXCEPT !.count[section] = @ + 1]
    /\ UNCHANGED serverVars

NextToggle == \E section \in ToggleCatalog : CountedToggle(section)

SpecToggle == InitToggle /\ [][NextToggle]_vars

-----------------------------------------------------------------------------
(* parseDaysOfWeek on its own: the day strings written from a list of days,    *)
(* as letter codes or as full names joined by ", ", and a few that name no day *)

MaxDayTokens == 3

AllDays == <<0, 1, 2, 3, 4, 5, 6>>

\* the letter the data writes for each day, Monday first
DayCodes == <<"M", "T", "W", "R", "F", "S", "U">>

RECURSIVE codesOf(_)
codesOf(days) ==
    IF days = <<>> THEN <<>> ELSE <<DayCodes[days[1] + 1]>> \o codesOf(Tail(days))

DayNames == <<Monday, Tuesday, Wednesday, Thursday, Friday, Saturday, Sunday>>

RECURSIVE namesOf(_)
namesOf(days) ==
    IF days = <<>> THEN <<>>
    ELSE IF Len(days) = 1 THEN DayNames[days[1] + 1]
    ELSE DayNames[days[1] + 1] \o CommaBlank \o namesOf(Tail(days))

\* any order, repeats allowed, up to MaxDayTokens days; and every set of days in week order
DayLists ==
    UNION { [1..n -> 0..6] : n \in 1..MaxDayTokens }
    \cup { SelectSeq(AllDays, LAMBDA i : i \in D) : D \in (SUBSET (0..6)) \ {{}} }

OtherDayStrings == { Str0, <<"T", "B", "A">>, <<"m", "w", "f">>,
                     <<"M", "o", "n">> \o CommaBlank \o <<"W", "e", "d">> }

DayProbes ==
    { [op |-> "parseDaysOfWeek", form |-> "codes", days |-> l, daysString |-> codesOf(l),
       done |-> FALSE, result |-> <<>>] : l \in DayLists }
    \cup { [op |-> "parseDaysOfWeek", form |-> "names", days |-> l, daysString |-> namesOf(l),
            done |-> FALSE, result |-> <<>>] : l \in DayLists }
    \cup { [op |-> "parseDaysOfWeek", form |-> "other", days |-> <<>>, daysString |-> x,
            done |-> FALSE, result |-> <<>>] : x \in OtherDayStrings }

InitDays == EngineInit /\ ServerInit /\ probe \in DayProbes

CallParseDaysOfWeek ==
    /\ probe.op = "parseDaysOfWeek"
    /\ ~probe.done
    /\ probe' = [probe EXCEPT !.done = TRUE, !.result = parseDaysOfWeek(probe.daysString)]
    /\ UNCHANGED <<engineVars, serverVars>>

NextDays == CallParseDaysOfWeek

SpecDays == InitDays /\ [][NextDays]_vars

-----------------------------------------------------------------------------
(* parseTimeInfo on its own *)

MaxDurationHours == 2

StartHours == 0..23

StartMinutes == {0, 20, 29, 30, 50, 59}

DurationMinutes == {0, 1, 20, 29, 30, 31, 50, 59, 75}

\* "PT<h>H<m>M", both parts written
IsoFull(h, m) == <<"P", "T">> \o Dec(h) \o <<"H">> \o Dec(m) \o <<"M">>

DurationInputs ==
    { [form |-> "full", h |-> h, m |-> m, text |-> IsoFull(h, m)] :
          h \in 0..MaxDurationHours, m \in DurationMinutes }
    \cup { [form |-> "hours", h |-> h, m |-> 0, text |-> <<"P", "T">> \o Dec(h) \o <<"H">>] :
               h \in 0..MaxDurationHours }
    \cup { [form |-> "minutes", h |-> 0, m |-> m, text |-> <<"P", "T">> \o Dec(m) \o <<"M">>] :
               m \in DurationMinutes }
    \cup { [form |-> "bare", h |-> 0, m |-> 0, text |-> <<"P", "T">>],
           [form |-> "absent", h |-> 0, m |-> 0, text |-> Str0],
           [form |-> "other", h |-> 0, m |-> 0, text |-> <<"5", "0", " ", "m", "i", "n">>] }

\* an absolute timestamp in UTC, "2024-01-15T<HH>:<MM>:00Z"
Timestamp(h, m) ==
    <<"2", "0", "2", "4", "-", "0", "1", "-", "1", "5", "T">> \o Clock(h, m) \o <<"Z">>

StartInputs ==
    { [form |-> "clock", h |-> h, m |-> m, text |-> Clock(h, m)] :
          h \in StartHours, m \in StartMinutes }
    \cup { [form |-> "timestamp", h |-> h, m |-> m, text |-> Timestamp(h, m)] :
               h \in StartHours, m \in StartMinutes }
    \cup { [form |-> "absent", h |-> 0, m |-> 0, text |-> Str0],
           [form |-> "other", h |-> 0, m |-> 0, text |-> <<"T", "B", "A">>] }

\* the start times the older copy is called on: what a clock string reads as under
\* new Date is left to the browser, so no clock string is among them
LegacyStartInputs == { st \in StartInputs : st.form # "clock" }

InitTime ==
    /\ EngineInit
    /\ ServerInit
    /\ probe \in { [op |-> "parseTimeInfo", start |-> st, duration |-> du,
                    done |-> FALSE, result |-> Null] :
                       st \in StartInputs, du \in DurationInputs }
                \cup { [op |-> "parseTimeInfoLegacy", start |-> st, duration |-> du,
                         done |-> FALSE, result |-> Null] :
                            st \in LegacyStartInputs, du \in DurationInputs }

CallParseTimeInfo ==
    /\ probe.op = "parseTimeInfo"
    /\ ~probe.done
    /\ probe' = [probe EXCEPT !.done = TRUE,
                              !.result = parseTimeInfo(probe.start.text, probe.duration.text)]
    /\ UNCHANGED <<engineVars, serverVars>>

\* the same call on the copy of src/js/search.js
CallParseTimeInfoLegacy ==
    /\ probe.op = "parseTimeInfoLegacy"
    /\ ~probe.done
    /\ probe' = [probe EXCEPT !.done = TRUE,
                              !.result = parseTimeInfoLegacy(probe.start.text,
                                                             probe.duration.text)]
    /\ UNCHANGED <<engineVars, serverVars>>

NextTime == CallParseTimeInfo \/ CallParseTimeInfoLegacy

SpecTime == InitTime /\ [][NextTime]_vars

-----------------------------------------------------------------------------
(* meetingsOverlap on its own *)

InitOverlap ==
    /\ EngineInit
    /\ ServerInit
    /\ probe \in { [op |-> "meetingsOverlap", meeting1 |-> m1, meeting2 |-> m2,
                    done |-> FALSE, result |-> FALSE] :
                       m1 \in OverlapMeetings, m2 \in OverlapMeetings }

CallMeetingsOverlap ==
    /\ probe.op = "meetingsOverlap"
    /\ ~probe.done
    /\ probe' = [probe EXCEPT !.done = TRUE,
                              !.result = meetingsOverlap(probe.meeting1, probe.meeting2)]
    /\ UNCHANGED <<engineVars, serverVars>>

NextOverlap == CallMeetingsOverlap

SpecOverlap == InitOverlap /\ [][NextOverlap]_vars

-----------------------------------------------------------------------------
(* A page opened on a saved schedule of two sections: initCourseSearch calls   *)
(* loadSavedSchedule, whose timer then calls updateScheduleDisplay.            *)

PairIds == { <<1, 2>>, <<2, 1>> }

SavedPair(ids, m1, m2) ==
    << Section(ids[1], CS180, <<m1>>), Section(ids[2], MA261, <<m2>>) >>

InitPair ==
    /\ selectedSections = <<>>
    /\ \E ids \in PairIds, m1 \in PairMeetings, m2 \in PairMeetings :
           storage = saved(SavedPair(ids, m1, m2))
    /\ renderedSections = <<>>
    /\ renderedAliased = FALSE
    /\ colorMap = <<>>
    /\ conflicts = <<>>
    /\ display = "none"
    /\ blocks = <<>>
    /\ warning = NoWarning
    /\ creditCounter = 0
    /\ ServerInit
    /\ probe = [op |-> "page", phase |-> "opening"]

\* loadSavedSchedule: courseState.selectedSections = data.sections, and the timer is set
LoadSavedSchedule ==
    /\ probe.op = "page"
    /\ probe.phase = "opening"
    /\ storage.saved
    /\ selectedSections' = storage.sections
    /\ probe' = [probe EXCEPT !.phase = "timer"]
    /\ UNCHANGED <<storage, renderedSections, renderedAliased, colorMap, conflicts,
                   display, blocks, warning, creditCounter, serverVars>>

\* the timer of loadSavedSchedule: updateScheduleDisplay
DisplayTimer ==
    /\ probe.op = "page"
    /\ probe.phase = "timer"
    /\ renderScheduleGrid(selectedSections, TRUE, renderedSections, renderedAliased)
    /\ probe' = [probe EXCEPT !.phase = "shown"]
    /\ UNCHANGED <<selectedSections, storage, serverVars>>

NextPair == LoadSavedSchedule \/ DisplayTimer

SpecPair == InitPair /\ [][NextPair]_vars

-----------------------------------------------------------------------------
(* assignCourseColors on its own: called twice on the same ordered list of      *)
(* sections, the map holding what an earlier pass left in it.                   *)

MaxColorSections == 3

\* a selected section whose _course is missing: section._course?.Id is undefined
NoCourse == Course(NoCourseId, "", "", 0)

ColorSections == Catalog \cup { Section(6, NoCourse, <<>>) }

\* the ordered lists of distinct sections, up to MaxColorSections long
ColorLists ==
    { list \in UNION { [1..n -> ColorSections] : n \in 0..MaxColorSections } :
          \A i \in 1..Len(list) : \A j \in 1..Len(list) :
              (i # j) => list[i].Id # list[j].Id }

\* the maps an earlier pass over at most one section leaves
EarlierMaps ==
    { assignCourseColors(list, <<>>) : list \in { l \in ColorLists : Len(l) <= 1 } }

InitColors ==
    /\ selectedSections = <<>>
    /\ storage = NoStorage
    /\ renderedSections = <<>>
    /\ renderedAliased = FALSE
    /\ colorMap \in EarlierMaps
    /\ conflicts = <<>>
    /\ display = "none"
    /\ blocks = <<>>
    /\ warning = NoWarning
    /\ creditCounter = 0
    /\ ServerInit
    /\ probe \in { [op |-> "assignCourseColors", sections |-> list, calls |-> 0,
                    first |-> <<>>] : list \in ColorLists }

CallAssignCourseColors ==
    /\ probe.op = "assignCourseColors"
    /\ probe.calls < 2
    /\ colorMap' = assignCourseColors(probe.sections, colorMap)
    /\ probe' = [probe EXCEPT !.calls = probe.calls + 1,
                              !.first = IF probe.calls = 0 THEN colorMap' ELSE probe.first]
    /\ UNCHANGED <<selectedSections, storage, renderedSections, renderedAliased,
                   conflicts, display, blocks, warning, creditCounter, serverVars>>

NextColors == CallAssignCourseColors

SpecColors == InitColors /\ [][NextColors]_vars

-----------------------------------------------------------------------------
(* The usage-tracking server.  Its handlers read and write the two data files   *)
(* with the synchronous fs calls, so each request is one step.  stats is the    *)
(* object parsed from stats.json: a function from its own keys to the           *)
(* aggregated entries; a lookup stats[key] also finds what every object         *)
(* inherits from Object.prototype.  Timestamps and the user agent are left out. *)

MaxLogEntries == 4

\* a request body without linkId
NoLinkId == ""

\* names every object inherits a property under
InheritedKeys == { "constructor", "toString" }

LinkIds == { "brightspace", "mypurdue", "constructor" }

Bodies == { [linkId |-> id, name |-> n, category |-> c] :
                id \in LinkIds \cup {NoLinkId}, n \in {"", "Brightspace"}, c \in {""} }

\* stats[key] is truthy
statsHas(st, key) == key \in DOMAIN st \/ key \in InheritedKeys

\* updateStats(entry): what writeStats writes.  For a key that is only inherited
\* the count and lastSeen are set on the inherited value, and JSON.stringify writes
\* own properties only.
updateStats(st, entry) ==
    IF ~statsHas(st, entry.linkId)
    THEN st @@ (entry.linkId :> [linkId |-> entry.linkId, name |-> entry.name,
                                 category |-> entry.category, count |-> 1])
    ELSE IF entry.linkId \in DOMAIN st
    THEN [st EXCEPT ![entry.linkId].count = @ + 1]
    ELSE st

\* POST /api/usage
PostUsage(body) ==
    /\ Len(usageLog) < MaxLogEntries
    /\ IF body.linkId = NoLinkId
       THEN /\ response' = [status |-> "400", error |-> "linkId is required"]
            /\ UNCHANGED <<usageLog, stats>>
       ELSE LET entry == [linkId |-> body.linkId,
                          name |-> IF body.name = "" THEN body.linkId ELSE body.name,
                          category |-> IF body.category = "" THEN "Unknown"
                                       ELSE body.category]
            IN /\ usageLog' = Append(usageLog, entry)
               /\ stats' = updateStats(stats, entry)
               /\ response' = [status |-> "201", data |-> entry]
    /\ UNCHANGED <<engineVars, probe>>

\* DELETE /api/usage/clear
ClearUsage ==
    /\ usageLog' = <<>>
    /\ stats' = <<>>
    /\ response' = [status |-> "200", message |-> "All usage data cleared"]
    /\ UNCHANGED <<engineVars, probe>>

NextUsage ==
    \/ \E body \in Bodies : PostUsage(body)
    \/ ClearUsage

SpecUsage == Init /\ [][NextUsage]_vars

-----------------------------------------------------------------------------
(* What the input strings say, read off the way they were written (not by the  *)
(* parsers): the days a day string names, the clock time and the minutes.      *)

RefDays(d) ==
    CASE d = MWF -> {0, 2, 4}
      [] d = TR -> {1, 3}
      [] d = Monday \o CommaBlank \o Wednesday \o CommaBlank \o Friday -> {0, 2, 4}
      [] d = Tuesday \o CommaBlank \o Thursday -> {1, 3}
      [] d = <<"F">> -> {4}
      [] d = <<"M">> -> {0}
      [] d = <<"S", "U">> -> {5, 6}
      [] d = Saturday \o CommaBlank \o Sunday -> {5, 6}
      [] d = Saturday -> {5}
      [] OTHER -> {}

RefWeekdays(d) == RefDays(d) \cap (0..4)

\* every way of writing only Saturday and/or Sunday that the saved schedules use
WeekendOnlyStrings == { d \in PairDays : RefDays(d) # {} /\ RefDays(d) \subseteq {5, 6} }

refClockTable ==
    [t \in (PairStarts \cup OverlapStarts) \ {Str0} |->
        CHOOSE hm \in (0..23) \X (0..59) : Clock(hm[1], hm[2]) = t]

\* minutes after midnight at which a meeting starts
RefStartMinute(t) == refClockTable[t][1] * 60 + refClockTable[t][2]

refDurationTable ==
    [u \in (PairDurations \cup OverlapDurations) \ {Str0} |->
        CHOOSE hm \in (0..3) \X (0..59) : Iso(hm[1], hm[2]) = u]

\* the minutes a meeting lasts, 50 where no duration is given
RefMinutes(u) ==
    IF u = Str0 THEN 50 ELSE refDurationTable[u][1] * 60 + refDurationTable[u][2]

\* the least k with 30 * k >= minutes
RefCeil30(minutes) == CHOOSE k \in 0..minutes : 30 * k >= minutes /\ 30 * (k - 1) < minutes

\* the slot of the half hour a clock time falls in, counted from 07:00
RefStartSlot(t) ==
    (refClockTable[t][1] - 7) * 2 + (IF refClockTable[t][2] >= 30 THEN 1 ELSE 0)

RefSlots(m) ==
    { k \in -20..60 : /\ RefStartSlot(m.StartTime) <= k
                      /\ k < RefStartSlot(m.StartTime) + RefCeil30(RefMinutes(m.Duration)) }

RefClockMinutes(m) ==
    { k \in 0..1800 : /\ RefStartMinute(m.StartTime) <= k
                      /\ k < RefStartMinute(m.StartTime) + RefMinutes(m.Duration) }

\* the page has been opened on a saved pair and the grid has been rendered
PairShown == probe.op = "page" /\ probe.phase = "shown"

PairA == selectedSections[1]
PairB == selectedSections[2]
PairMA == selectedSections[1].Meetings[1]
PairMB == selectedSections[2].Meetings[1]

ConflictIds(found) == { SeqRange(found[k].sections) : k \in 1..Len(found) }

BlocksOf(id) == { k \in 1..Len(blocks) : blocks[k].sectionId = id }

-----------------------------------------------------------------------------
(* Claims *)

\* C1: two selected sections that each have one meeting, on a shared weekday and with
\* intersecting slot ranges, yield exactly one conflict pair, listing the two ids in
\* selection order; sections 1 and 2 with 'MWF' meetings of PT50M at 09:00:00 and
\* 09:20:00 yield exactly the pair [1, 2].
C1_EndToEndPair ==
    PairShown =>
        /\ ( ( /\ PairMA.StartTime # Str0 /\ PairMB.StartTime # Str0
               /\ RefWeekdays(PairMA.DaysOfWeek) \cap RefWeekdays(PairMB.DaysOfWeek) # {}
               /\ RefSlots(PairMA) \cap RefSlots(PairMB) # {} )
             => ( Len(conflicts) = 1 /\ conflicts[1].sections = <<PairA.Id, PairB.Id>> ) )
        /\ ( ( /\ PairA.Id = 1 /\ PairB.Id = 2
               /\ PairMA = Meeting(MWF, Clock(9, 0), Iso(0, 50))
               /\ PairMB = Meeting(MWF, Clock(9, 20), Iso(0, 50)) )
             => ( Len(conflicts) = 1 /\ conflicts[1].sections = <<1, 2>> ) )

C1_Witness ==
    /\ PairShown
    /\ PairA.Id = 1 /\ PairB.Id = 2
    /\ PairMA = Meeting(MWF, Clock(9, 0), Iso(0, 50))
    /\ PairMB = Meeting(MWF, Clock(9, 20), Iso(0, 50))
    /\ Len(conflicts) = 1
    /\ conflicts[1].sections = <<1, 2>>

\* C2: for two meetings that share a weekday, meetingsOverlap answers the half-open
\* test start1 < end2 and start2 < end1 on their slot ranges, end = start + numSlots;
\* [10,14) and [12,16) overlap, [10,14) and [14,18) do not.
C2_HalfOpenOverlap ==
    (probe.op = "meetingsOverlap" /\ probe.done) =>
        LET m1 == probe.meeting1
            m2 == probe.meeting2
            s1 == RefStartSlot(m1.StartTime)
            s2 == RefStartSlot(m2.StartTime)
            e1 == s1 + RefCeil30(RefMinutes(m1.Duration))
            e2 == s2 + RefCeil30(RefMinutes(m2.Duration))
        IN (RefWeekdays(m1.DaysOfWeek) \cap RefWeekdays(m2.DaysOfWeek) # {}) =>
               ( /\ probe.result = (s1 < e2 /\ s2 < e1)
                 /\ ((s1 = 10 /\ e1 = 14 /\ s2 = 12 /\ e2 = 16) => probe.result)
                 /\ ((s1 = 10 /\ e1 = 14 /\ s2 = 14 /\ e2 = 18) => ~probe.result) )

C2_Witness ==
    /\ probe.op = "meetingsOverlap"
    /\ probe.done
    /\ probe.meeting1 = Meeting(MWF, Clock(12, 0), Iso(2, 0))
    /\ probe.meeting2 = Meeting(MWF, Clock(14, 0), Iso(2, 0))
    /\ probe.result = FALSE

\* C3: whenever two selected sections have meetings on a common weekday whose clock
\* intervals [start, start + duration) overlap by at least one minute,
\* detectAllConflicts reports that section pair.
C3_EveryRealClashReported ==
    PairShown =>
        ( ( /\ PairMA.StartTime # Str0 /\ PairMB.StartTime # Str0
            /\ RefWeekdays(PairMA.DaysOfWeek) \cap RefWeekdays(PairMB.DaysOfWeek) # {}
            /\ RefClockMinutes(PairMA) \cap RefClockMinutes(PairMB) # {} )
          => {PairA.Id, PairB.Id} \in ConflictIds(conflicts) )

\* C5: two selected sections whose meetings share no weekday index are never reported
\* as a conflict pair, whatever their start times and durations.
C5_NoSharedDayNoConflict ==
    PairShown =>
        ( (RefWeekdays(PairMA.DaysOfWeek) \cap RefWeekdays(PairMB.DaysOfWeek) = {})
          => {PairA.Id, PairB.Id} \notin ConflictIds(conflicts) )

C5_Witness ==
    /\ PairShown
    /\ PairMA = Meeting(MWF, Clock(9, 0), Iso(0, 50))
    /\ PairMB = Meeting(TR, Clock(9, 0), Iso(0, 50))
    /\ conflicts = <<>>
    /\ Len(blocks) = 5

\* some meeting of section a overlaps some meeting of section b
SomeMeetingsOverlap(a, b) ==
    \E ma \in SeqRange(a.Meetings) : \E mb \in SeqRange(b.Meetings) : meetingsOverlap(ma, mb)

EntriesFor(found, ida, idb) ==
    { k \in 1..Len(found) : SeqRange(found[k].sections) = {ida, idb} }

\* the meeting pairs of two sections that overlap
OverlappingMeetingPairs(a, b) ==
    { ab \in (1..Len(a.Meetings)) \X (1..Len(b.Meetings)) :
          meetingsOverlap(a.Meetings[ab[1]], b.Meetings[ab[2]]) }

\* C4: for every unordered pair of distinct selected sections the result of
\* detectAllConflicts holds exactly one entry for the pair if some meeting of one
\* overlaps some meeting of the other and none otherwise (once, however many meeting
\* pairs overlap), and this does not depend on which of the two comes first.
C4_OneEntryPerConflictingPair ==
    LET found == detectAllConflicts(selectedSections)
    IN /\ \A i \in 1..Len(selectedSections) : \A j \in 1..Len(selectedSections) :
              (i # j) =>
                  LET a == selectedSections[i]
                      b == selectedSections[j]
                  IN /\ SomeMeetingsOverlap(a, b) = SomeMeetingsOverlap(b, a)
                     /\ Cardinality(EntriesFor(found, a.Id, b.Id))
                            = (IF SomeMeetingsOverlap(a, b) THEN 1 ELSE 0)
       /\ \A k \in 1..Len(found) :
              \E i \in 1..Len(selectedSections) : \E j \in 1..Len(selectedSections) :
                  i # j /\ SeqRange(found[k].sections)
                               = {selectedSections[i].Id, selectedSections[j].Id}
       /\ (selectedSections # <<>>) => conflicts = found

\* sections 4 and 3, selected in this order, overlap in two meeting pairs
C4_Witness ==
    /\ Len(selectedSections) = 3
    /\ selectedSections[1].Id = 4
    /\ selectedSections[2].Id = 1
    /\ selectedSections[3].Id = 3
    /\ Cardinality(OverlappingMeetingPairs(selectedSections[1], selectedSections[3])) = 2
    /\ Cardinality(EntriesFor(conflicts, 3, 4)) = 1
    /\ Cardinality(EntriesFor(conflicts, 1, 3)) = 1
    /\ Len(conflicts) = 2

\* the probe is a finished parseDaysOfWeek call on a string written from Monday..Friday only
DaysProbeDone == probe.op = "parseDaysOfWeek" /\ probe.done

OnlyWeekdays(days) == days # <<>> /\ SeqRange(days) \subseteq 0..4

\* C6: for every non-empty subset D of Monday..Friday, parseDaysOfWeek of the letter
\* codes of D and of the full names of D joined by commas return the same set, the
\* indices of D; a single full name with no comma included.
C6_CodesAndNamesAgree ==
    (DaysProbeDone /\ probe.form \in {"codes", "names"} /\ OnlyWeekdays(probe.days))
        => SeqRange(probe.result) = SeqRange(probe.days)

\* C7: for every string of the letter codes M, T, W, R, F, parseDaysOfWeek returns
\* exactly the indices of the codes present, T being Tuesday only and R Thursday only;
\* 'TR' yields {1, 3}.
C7_LetterCodes ==
    (DaysProbeDone /\ probe.form = "codes" /\ OnlyWeekdays(probe.days))
        => /\ SeqRange(probe.result) = SeqRange(probe.days)
           /\ (probe.daysString = TR) => (probe.result = <<1, 3>>)
           /\ (1 \in SeqRange(probe.result)) = Includes(probe.daysString, <<"T">>)
           /\ (3 \in SeqRange(probe.result)) = Includes(probe.daysString, <<"R">>)

C7_Witness ==
    /\ DaysProbeDone
    /\ probe.form = "codes"
    /\ probe.daysString = TR
    /\ probe.result = <<1, 3>>

\* every index parseDaysOfWeek returns for a day string of DayProbes is in 0..4
parsedIndicesInWeek ==
    \A p \in DayProbes : SeqRange(parseDaysOfWeek(p.daysString)) \subseteq 0..4

\* C8: every index parseDaysOfWeek returns and every placed block's day index is in
\* 0..4; a meeting whose days are only Saturday and/or Sunday, in either encoding,
\* produces no placed block and takes part in no conflict pair.
C8_WeekdaysOnly ==
    /\ parsedIndicesInWeek
    /\ \A k \in 1..Len(blocks) : (blocks[k].gridColumn - 2) \in 0..4
    /\ PairShown =>
           \A i \in 1..2 :
               /\ SeqRange(parseDaysOfWeek(selectedSections[i].Meetings[1].DaysOfWeek))
                      \subseteq 0..4
               /\ (selectedSections[i].Meetings[1].DaysOfWeek \in WeekendOnlyStrings)
                      => /\ BlocksOf(selectedSections[i].Id) = {}
                         /\ ~hasConflict(conflicts, selectedSections[i])

C8_Witness ==
    /\ PairShown
    /\ PairMA = Meeting(<<"S", "U">>, Clock(9, 0), Iso(0, 50))
    /\ PairMB = Meeting(Saturday \o CommaBlank \o Sunday, Clock(9, 0), Iso(0, 50))
    /\ blocks = <<>>
    /\ conflicts = <<>>

\* C9: a meeting whose startSlot is negative or at least the total slot count (30 for
\* the 07:00-22:00 window) produces no placed block on any of its days.
C9_OutOfWindowOmitted ==
    PairShown =>
        \A i \in 1..2 :
            LET m == selectedSections[i].Meetings[1]
            IN (m.StartTime # Str0 /\ (RefStartSlot(m.StartTime) < 0
                                        \/ RefStartSlot(m.StartTime) >= 30))
                   => BlocksOf(selectedSections[i].Id) = {}

C9_Witness ==
    /\ PairShown
    /\ PairMA = Meeting(MWF, Clock(6, 30), Iso(0, 50))
    /\ PairMB = Meeting(MWF, Clock(22, 0), Iso(0, 50))
    /\ display = "block"
    /\ blocks = <<>>

TimeProbeDone == probe.op = "parseTimeInfo" /\ probe.done

\* C10: parseTimeInfo computes numSlots = ceil(durationMinutes / 30), durationMinutes
\* being 60 * H + M of a duration PT<H>H<M>M, and 50 when the duration is absent;
\* 'PT1H20M' gives 3 and an absent duration gives 2.
C10_NumSlots ==
    (TimeProbeDone /\ ~probe.result.isNull) =>
        /\ (probe.duration.form \in {"full", "hours", "minutes"})
               => probe.result.numSlots
                      = RefCeil30(60 * probe.duration.h + probe.duration.m)
        /\ (probe.duration.form = "absent") => probe.result.numSlots = 2
        /\ (probe.duration.text = IsoFull(1, 20)) => probe.result.numSlots = 3

C10_Witness ==
    /\ TimeProbeDone
    /\ probe.start.text = Clock(9, 0)
    /\ probe.duration.text = IsoFull(1, 20)
    /\ probe.result = [isNull |-> FALSE, startSlot |-> 4, numSlots |-> 3]

\* C11: for every start time parseTimeInfo can parse, written with hour h and minute
\* m, startSlot = (h - 7) * 2 + (1 if m >= 30, else 0): minutes 0..29 fall in the first
\* half-hour slot of the hour and minutes 30..59 in the second.
C11_StartSlot ==
    (TimeProbeDone /\ probe.start.form = "clock") =>
        /\ ~probe.result.isNull
        /\ (probe.start.m \in 0..29) => probe.result.startSlot = 2 * probe.start.h - 14
        /\ (probe.start.m \in 30..59) => probe.result.startSlot = 2 * probe.start.h - 13

C11_Witness ==
    /\ TimeProbeDone
    /\ probe.start.text = Clock(9, 30)
    /\ probe.duration.text = IsoFull(0, 50)
    /\ probe.result = [isNull |-> FALSE, startSlot |-> 5, numSlots |-> 2]

\* C12: parseTimeInfo accepts both encodings of a start time: for the same hour and
\* minute an absolute timestamp and a bare 'HH:MM:SS' clock string each give a
\* non-null result, with the same startSlot and numSlots.
C12_BothEncodings ==
    (TimeProbeDone /\ probe.start.form \in {"clock", "timestamp"}) =>
        /\ ~probe.result.isNull
        /\ probe.result = parseTimeInfo(Clock(probe.start.h, probe.start.m),
                                        probe.duration.text)
        /\ probe.result.startSlot
               = 2 * probe.start.h - 14 + (IF probe.start.m >= 30 THEN 1 ELSE 0)

\* a malformed meeting gives no block, whatever the section, and overlaps no meeting
malformedMeetingsDropped ==
    \A m \in MalformedMeetings :
        /\ \A section \in Catalog : renderMeeting(m, section, defaultColor, <<>>) = <<>>
        /\ \A other \in MalformedMeetings \cup CatalogMeetings :
               ~meetingsOverlap(m, other) /\ ~meetingsOverlap(other, m)

\* a day string that names no weekday parses to the empty set
noWeekdayParsesEmpty ==
    \A d \in MalformedDays \ {MWF} : parseDaysOfWeek(d) = <<>>

\* C13: malformed input is dropped, in both implementations: parseTimeInfo returns
\* null for a missing or unparsable start time, parseDaysOfWeek returns the empty set
\* for a day string that names no weekday, and such a meeting gives no placed block
\* and takes part in no conflict.
C13_MalformedDropped ==
    /\ ( /\ probe.op \in {"parseTimeInfo", "parseTimeInfoLegacy"}
         /\ probe.done
         /\ probe.start.form \in {"absent", "other"} ) => probe.result.isNull
    /\ noWeekdayParsesEmpty
    /\ malformedMeetingsDropped

\* C14: across the render passes of a page session, the k-th distinct course id first
\* seen has the palette entry (k - 1) mod 10, so the first ten distinct courses have
\* pairwise different colors, also when the sections are added one at a time.
C14_PaletteInOrder ==
    /\ \A k \in 1..Len(colorMap) :
           colorMap[k].color = colors[((k - 1) % Len(colors)) + 1]
    /\ \A k \in 1..Len(colorMap) : \A l \in 1..Len(colorMap) :
           (k # l /\ k <= Len(colors) /\ l <= Len(colors))
               => colorMap[k].color # colorMap[l].color

\* C15: across add, remove and clear events, a course id that has an entry in the
\* color map keeps it: the entry is never removed and its color never changes.
C15_ColorsAreKept ==
    [][ \A k \in 1..Len(colorMap) :
            /\ mapHas(colorMap', colorMap[k].courseId)
            /\ mapGet(colorMap', colorMap[k].courseId) = colorMap[k].color ]_vars

\* the schedule has been cleared and the map still holds the courses rendered before
C15_Witness ==
    /\ selectedSections = <<>>
    /\ storage = NoStorage
    /\ display = "none"
    /\ Len(colorMap) >= 3
    /\ mapHas(colorMap, "CS180")
    /\ mapHas(colorMap, "ENGL106")

\* C16: assignCourseColors is idempotent: a second call on the same ordered list of
\* sections leaves the color map exactly as the first call left it.
C16_Idempotent ==
    (probe.op = "assignCourseColors" /\ probe.calls = 2) =>
        /\ colorMap = probe.first
        /\ \A k \in 1..Len(colorMap) : \A l \in 1..Len(colorMap) :
               (k # l) => colorMap[k].courseId # colorMap[l].courseId

C16_Witness ==
    /\ probe.op = "assignCourseColors"
    /\ probe.calls = 2
    /\ Len(probe.sections) = 3
    /\ probe.sections[1].Id = 2 /\ probe.sections[2].Id = 4 /\ probe.sections[3].Id = 1
    /\ colorMap = << [courseId |-> "PHYS172", color |-> colors[1]],
                     [courseId |-> "MA261", color |-> colors[1]],
                     [courseId |-> "CS180", color |-> colors[2]] >>

\* the section of the catalog with this id
catalogSection(id) == CHOOSE section \in Catalog : section.Id = id

\* a section without a course misses the map, whatever the map holds, and its blocks
\* are drawn in the default color
missYieldsDefault ==
    \A map \in EarlierMaps :
        LET orphan == Section(6, NoCourse, << Meeting(MWF, Clock(9, 0), Iso(0, 50)) >>)
            drawn == renderSection(orphan, map, <<>>)
        IN /\ colorOf(map, NoCourseId) = "#999"
           /\ Len(drawn) = 3
           /\ \A k \in 1..Len(drawn) : drawn[k].backgroundColor = "#999"

\* C17: after every render pass over a non-empty selection the color map has an entry
\* for the course id of every selected section, and the blocks are drawn in it; a lookup
\* that misses the map yields the default color '#999'.
C17_EverySelectedCourseHasColor ==
    /\ (selectedSections # <<>>) =>
           \A k \in 1..Len(selectedSections) :
               \E e \in 1..Len(colorMap) :
                   /\ colorMap[e].courseId = selectedSections[k].course.Id
                   /\ colorMap[e].color \in SeqRange(colors)
                   /\ \A b \in BlocksOf(selectedSections[k].Id) :
                          blocks[b].backgroundColor = colorMap[e].color
    /\ \A section \in Catalog :
           (\A e \in 1..Len(colorMap) : colorMap[e].courseId # section.course.Id)
               => colorOf(colorMap, section.course.Id) = "#999"
    /\ missYieldsDefault

C17_Witness ==
    /\ Len(selectedSections) = 3
    /\ {selectedSections[k].course.Id : k \in 1..3} = {"CS180", "MA261", "PHYS172"}
    /\ {colorMap[e].courseId : e \in 1..Len(colorMap)} = {"CS180", "MA261", "PHYS172"}
    /\ colorOf(colorMap, "ENGL106") = "#999"
    /\ Len(blocks) = 9

\* the selected sections, other than the one with this id, that clash with it
ClashingWith(id) ==
    { other \in SeqRange(selectedSections) :
          /\ other.Id # id
          /\ \/ SomeMeetingsOverlap(catalogSection(id), other)
             \/ SomeMeetingsOverlap(other, catalogSection(id)) }

\* C18: in every render pass a placed block carries the conflict flag exactly if the id
\* of its section is in some conflict pair computed in that same pass, from the
\* selection the pass renders and not from an earlier one.
C18_FlagFromSamePass ==
    /\ \A k \in 1..Len(blocks) :
           blocks[k].conflict = (blocks[k].sectionId \in UNION ConflictIds(conflicts))
    /\ (selectedSections # <<>>) =>
           \A k \in 1..Len(blocks) :
               /\ blocks[k].sectionId \in { section.Id : section \in SeqRange(selectedSections) }
               /\ blocks[k].conflict = (ClashingWith(blocks[k].sectionId) # {})

\* sections 1 and 2 clash with each other, section 4 with neither
C18_Witness ==
    /\ Len(selectedSections) = 3
    /\ { section.Id : section \in SeqRange(selectedSections) } = {1, 2, 4}
    /\ Len(conflicts) = 1
    /\ \A k \in 1..Len(blocks) : blocks[k].conflict = (blocks[k].sectionId \in {1, 2})
    /\ Len(blocks) = 9

C20_ConflictIsVisible ==
    PairShown =>
        \A c \in 1..Len(conflicts) : \A id \in SeqRange(conflicts[c].sections) :
            /\ BlocksOf(id) # {}
            /\ \A k \in BlocksOf(id) : blocks[k].conflict

\* C21: after every add, remove and clear event the stored conflict list is
\* detectAllConflicts of the sections selected now; it is empty once the selection
\* has become empty.
C21_ConflictsAreCurrent ==
    /\ conflicts = detectAllConflicts(selectedSections)
    /\ (selectedSections = <<>>) => (conflicts = <<>> /\ warning = NoWarning)

\* C22: every placed block is within the bounds of a canonical interval:
\* 0 <= startSlot < totalSlots and numSlots >= 1, whatever duration string the parser
\* accepted, 'PT0M' and a bare 'PT' included.
C22_BlockBounds ==
    /\ \A k \in 1..Len(blocks) :
           /\ blocks[k].gridRow - 2 >= 0
           /\ blocks[k].gridRow - 2 < totalSlots
           /\ blocks[k].span >= 1
    /\ (TimeProbeDone /\ ~probe.result.isNull
           /\ probe.duration.form \in {"full", "hours", "minutes", "bare"})
          => probe.result.numSlots >= 1

\* a meeting with an unparsable duration gives no block and overlaps no meeting
badDurationDropped ==
    \A m \in BadDurationMeetings :
        /\ \A section \in Catalog : renderMeeting(m, section, defaultColor, <<>>) = <<>>
        /\ \A other \in BadDurationMeetings \cup CatalogMeetings :
               ~meetingsOverlap(m, other) /\ ~meetingsOverlap(other, m)

\* C23: a meeting whose duration string is present but does not match the PT..H..M
\* pattern is silently dropped: parseTimeInfo has no result for it, it gives no
\* placed block and it takes part in no conflict pair.
C23_UnparsableDurationDropped ==
    /\ (TimeProbeDone /\ probe.duration.form = "other") => probe.result.isNull
    /\ badDurationDropped

\* the position in the selection of the section with this id
positionOf(id) == CHOOSE p \in 1..Len(selectedSections) : selectedSections[p].Id = id

\* C24: detectAllConflicts returns its pairs in the order of the (i, j) double loop over
\* selection positions, i < j, lexicographic in (i, j) and not sorted afterwards; each
\* pair lists the ids as [id of sections[i], id of sections[j]].
C24_PairOrder ==
    (selectedSections # <<>>) =>
        /\ \A k \in 1..Len(conflicts) :
               /\ \A x \in 1..2 : \E p \in 1..Len(selectedSections) :
                      selectedSections[p].Id = conflicts[k].sections[x]
               /\ positionOf(conflicts[k].sections[1]) < positionOf(conflicts[k].sections[2])
        /\ \A k \in 1..Len(conflicts) : \A l \in 1..Len(conflicts) :
               (k < l) =>
                   LET ik == positionOf(conflicts[k].sections[1])
                       jk == positionOf(conflicts[k].sections[2])
                       il == positionOf(conflicts[l].sections[1])
                       jl == positionOf(conflicts[l].sections[2])
                   IN ik < il \/ (ik = il /\ jk < jl)

\* sections 3, 2, 1 selected in this order clash pairwise
C24_Witness ==
    /\ Len(selectedSections) = 3
    /\ selectedSections[1].Id = 3 /\ selectedSections[2].Id = 2 /\ selectedSections[3].Id = 1
    /\ Len(conflicts) = 3
    /\ conflicts[1].sections = <<3, 2>>
    /\ conflicts[2].sections = <<3, 1>>
    /\ conflicts[3].sections = <<2, 1>>

\* C25: no false clash: two selected sections whose meetings are on disjoint weekdays
\* or have disjoint clock intervals [start, start + duration) are not reported as a
\* conflict pair; 09:00 + PT50M against a 09:50 start on the same day is not reported.
C25_NoFalseClash ==
    PairShown =>
        /\ ( ( \/ PairMA.StartTime = Str0
               \/ PairMB.StartTime = Str0
               \/ RefWeekdays(PairMA.DaysOfWeek) \cap RefWeekdays(PairMB.DaysOfWeek) = {}
               \/ RefClockMinutes(PairMA) \cap RefClockMinutes(PairMB) = {} )
             => {PairA.Id, PairB.Id} \notin ConflictIds(conflicts) )
        /\ ( ( /\ PairMA = Meeting(MWF, Clock(9, 0), Iso(0, 50))
               /\ PairMB = Meeting(MWF, Clock(9, 50), Iso(0, 50)) )
             => conflicts = <<>> )

\* C26: every placed block lies wholly inside the displayed grid:
\* startSlot + numSlots <= totalSlots (30), no block runs past the last row of the
\* 07:00-22:00 window.
C26_BlockInsideGrid ==
    \A k \in 1..Len(blocks) : (blocks[k].gridRow - 2) + blocks[k].span <= totalSlots

\* C27: the result of parseDaysOfWeek never holds the same day index twice, for letter
\* codes and for comma-separated names alike, also when the input names a day more
\* than once; so a meeting gets at most one block per weekday.
C27_NoDayTwice ==
    (DaysProbeDone /\ probe.form \in {"codes", "names"}) =>
        \A i \in 1..Len(probe.result) : \A j \in 1..Len(probe.result) :
            (i # j) => probe.result[i] # probe.result[j]

\* C28: after any sequence of toggleSectionSelection calls from an empty selection,
\* with no clear, the selection holds no two sections with the same id and holds a
\* section exactly if it was toggled an odd number of times; each toggle is followed
\* by a save to storage and a render of the updated list.
C28_ToggleParity ==
    (probe.op = "toggles") =>
        /\ \A i \in 1..Len(selectedSections) : \A j \in 1..Len(selectedSections) :
               (i # j) => selectedSections[i].Id # selectedSections[j].Id
        /\ \A section \in ToggleCatalog :
               (section \in SeqRange(selectedSections)) = (probe.count[section] % 2 = 1)
        /\ (\E section \in ToggleCatalog : probe.count[section] > 0) =>
               /\ storage = saved(selectedSections)
               /\ (selectedSections # <<>>) =>
                      (display = "block" /\ renderedSections = selectedSections)
               /\ (selectedSections = <<>>) => display = "none"

\* section 1 added, removed and added again, section 2 added and removed, section 3 added
C28_Witness ==
    /\ probe.op = "toggles"
    /\ probe.count[catalogSection(1)] = 3
    /\ probe.count[catalogSection(2)] = 2
    /\ Len(selectedSections) = 2
    /\ probe.count[catalogSection(3)] = 1
    /\ selectedSections[1].Id = 3
    /\ selectedSections[2].Id = 1
    /\ storage = saved(selectedSections)

\* C29: after the schedule has been cleared or its last section removed,
\* renderedSections is empty, so an export request is refused with the 'No schedule
\* to export' message and the grid rendered before is not exported.
C29_NoExportAfterClear ==
    (selectedSections = <<>>) =>
        /\ renderedSections = <<>>
        /\ exportScheduleAsImage = "No schedule to export! Please add courses first."

\* the entries of the usage log with this link id
EntriesWith(log, id) == { k \in 1..Len(log) : log[k].linkId = id }

\* the count the aggregated stats hold for a link id, 0 where they hold none
CountIn(st, id) == IF id \in DOMAIN st THEN st[id].count ELSE 0

\* C30: after any sequence of POST /api/usage and DELETE /api/usage/clear requests
\* the count the stats hold for a link id is the number of log entries with that id,
\* for every link id; a POST without linkId is answered 400 and changes neither the
\* log nor the stats.
C30_StatsMatchLog ==
    [][ /\ \A id \in LinkIds :
              CountIn(stats', id) = Cardinality(EntriesWith(usageLog', id))
        /\ (response'.status = "400") => (usageLog' = usageLog /\ stats' = stats)
      ]_vars

\* the same for the link ids that are no inherited property name
OrdinaryIdsMatchLog ==
    [][ /\ \A id \in LinkIds \ InheritedKeys :
              CountIn(stats', id) = Cardinality(EntriesWith(usageLog', id))
        /\ (response'.status = "400") => (usageLog' = usageLog /\ stats' = stats)
      ]_vars

====
